---- MODULE Spec2Model ----
(***************************************************************************)
(* Snake Classic (src/Games/src/app/page.tsx): the game state machine, the *)
(* tick of the game loop, the three direction adapters and the persisted   *)
(* preferences, as one state machine.  Every handler is one atomic action: *)
(* the handlers run on a single event loop and the effects that follow a   *)
(* render (scoreRef sync, save preferences, game loop) are part of the     *)
(* action that caused the render.                                          *)
(*                                                                         *)
(* Six specifications share the handlers:                                  *)
(*   Spec     the page with every input of the player, /api/ai-snake out   *)
(*            of reach (requests are sent and never complete);             *)
(*   SpecAi   the page with the endpoint in reach: requests are followed   *)
(*            and come back in any order with any reply, the player starts *)
(*            games and lets them run into the wall;                       *)
(*   SpecLoop games taken up in mid-play with snakes of up to MaxLoopLen   *)
(*            segments, steered by the arrow keys;                         *)
(*   SpecApi  the route handler of /api/ai-snake (src/unnamed/part_000)    *)
(*            answering one request;                                       *)
(*   SpecTimer the page with the time of the interval followed in units of *)
(*            1/PeriodUnits of its period, steered by direction buttons;   *)
(*   SpecFood the tick that eats, with the do-while loop of generateFood   *)
(*            followed sample by sample, for snakes up to a full grid.     *)
(***************************************************************************)
EXTENDS Integers, Sequences, FiniteSets, TLC

\* ---------------------------------------------------------------- constants
GRID_SIZE == 20
INITIAL_SPEED == 150
SPEED_INCREMENT == 5
MIN_SPEED == 50
minSwipe == 30

\* ------------------------------------------------------------------- bounds
\* number of ticks in one run that turn the snake (apply a direction other
\* than the one of the tick before)
MaxTurns == 1
\* number of ticks in one run that eat the food
MaxFoods == 1
\* number of requests to /api/ai-snake that are sent in one run
MaxRequests == 2
\* length of the longest snake a game is taken up with in mid-play
MaxLoopLen == 5
\* number of time units the period of the interval is divided into
PeriodUnits == 2

\* an absent localStorage key or a null ref; a present value v is <<v>>
None == <<>>
Some(v) == <<v>>
NoDirection == "none"

Directions == {"UP", "DOWN", "LEFT", "RIGHT"}
GameStates == {"menu", "playing", "paused", "gameover"}

\* keys delivered to handleKeyDown ("x" stands for any unbound key)
Keys == {"ArrowUp", "w", "ArrowDown", "ArrowLeft", "ArrowRight",
         "Escape", "Enter", "x"}

\* values of localStorage.snake_speed / snake_highScore found at startup
SpeedPrefs == {None, Some(50)}
HighScorePrefs == {None, Some(10)}
\* positions of the speed slider that are tried
SliderValues == {50}
\* client coordinates of touches
TouchStarts == {100}
TouchEnds == {<<70, 60>>, <<70, 140>>, <<60, 70>>, <<140, 70>>,
              <<70, 70>>, <<140, 140>>}

VARIABLES gameState, snake, food, direction, nextDirection, score, scoreRef,
          highScore, speed, savedSpeed, savedHighScore, touchStartRef,
          turns, eaten,
          \* the interval kept in gameLoopRef and the number of armed intervals
          gameLoopRef, timers,
          \* the AI client of the page
          isLoadingAi, aiTip, aiFeedback,
          \* the requests to /api/ai-snake that have not completed, the number
          \* sent so far, the request whose answer aiFeedback shows, and whether
          \* requests are followed at all
          inFlight, issued, feedbackFrom, aiReachable,
          \* the route handler: the request it was given and its response
          apiRequest, apiResponse,
          \* the time since the interval was armed or last fired, in units of
          \* 1/PeriodUnits of its period (None where time is not followed: the
          \* callback of an armed interval then runs at any moment)
          elapsed,
          \* the call of generateFood that is followed sample by sample: its
          \* argument (None where no call is followed: the call then returns
          \* any cell it can return), its last sample, and whether it returned
          foodCall, newFood, foodReturned

timerVars == <<gameLoopRef, timers>>

aiVars == <<isLoadingAi, aiTip, aiFeedback, inFlight, issued, feedbackFrom,
            aiReachable>>

apiVars == <<apiRequest, apiResponse>>

foodVars == <<foodCall, newFood, foodReturned>>

vars == <<gameState, snake, food, direction, nextDirection, score, scoreRef,
          highScore, speed, savedSpeed, savedHighScore, touchStartRef,
          turns, eaten, timerVars, aiVars, apiVars, elapsed, foodVars>>

gameData == <<snake, food, direction, nextDirection, score, speed>>

Pos(px, py) == [x |-> px, y |-> py]

Abs(n) == IF n < 0 THEN -n ELSE n

Max(a, b) == IF a > b THEN a ELSE b

\* the body test skips the tail, which the move is about to vacate
OccupiesButTail(currentSnake, p) ==
    \E i \in 1..(Len(currentSnake) - 1) :
        currentSnake[i].x = p.x /\ currentSnake[i].y = p.y

\* currentSnake.some(segment => segment.x === p.x && segment.y === p.y)
Occupies(currentSnake, p) ==
    \E i \in 1..Len(currentSnake) :
        currentSnake[i].x = p.x /\ currentSnake[i].y = p.y

SampleCells == {Pos(10, 10), Pos(11, 10), Pos(10, 11), Pos(11, 11)}

\* the first sample is returned without the occupancy test
GenerateFoodAnywhere(currentSnake) == SampleCells

\* generateFood: the cells the do-while loop can return; where the call is
\* followed sample by sample, the cell it returned
GenerateFood(currentSnake) ==
    IF foodCall = None
    THEN {p \in SampleCells : ~Occupies(currentSnake, p)}
    ELSE IF foodReturned /\ foodCall = Some(currentSnake)
    THEN {newFood[1]}
    ELSE {}

\* the switch on currentDirection in the tick
MoveHead(head, dir) ==
    CASE dir = "UP" -> Pos(head.x, head.y - 1)
      [] dir = "DOWN" -> Pos(head.x, head.y + 1)
      [] dir = "LEFT" -> Pos(head.x - 1, head.y)
      [] dir = "RIGHT" -> Pos(head.x + 1, head.y)

\* off by one at the far walls
HitsWallOffByOne(head) ==
    head.x < 0 \/ head.x > GRID_SIZE \/ head.y < 0 \/ head.y > GRID_SIZE

HitsWall(head) ==
    head.x < 0 \/ head.x >= GRID_SIZE \/ head.y < 0 \/ head.y >= GRID_SIZE

\* newSnake.pop()
Pop(s) == SubSeq(s, 1, Len(s) - 1)

\* the opposites table of handleDirectionButton
opposites(d) ==
    CASE d = "UP" -> "DOWN"
      [] d = "DOWN" -> "UP"
      [] d = "LEFT" -> "RIGHT"
      [] d = "RIGHT" -> "LEFT"

\* saved ? parseInt(saved) : INITIAL_SPEED
LoadSpeed(saved) == IF saved = None THEN INITIAL_SPEED ELSE saved[1]

\* saved ? parseInt(saved) : 0
LoadHighScore(saved) == IF saved = None THEN 0 ELSE saved[1]

\* the armed intervals left by clearInterval(ref)
Cleared(ref, n) == IF ref = "armed" THEN n - 1 ELSE n

\* the effect returns no cleanup function
GameLoopEffectNoCleanup ==
    IF <<gameState, speed, food, nextDirection, highScore>>' =
           <<gameState, speed, food, nextDirection, highScore>>
    THEN UNCHANGED timerVars
    ELSE IF gameState' # "playing"
         THEN /\ timers' = Cleared(gameLoopRef, timers)
              /\ gameLoopRef' = "null"
         ELSE /\ timers' = timers + 1
              /\ gameLoopRef' = "armed"

\* the game-loop effect, run after a render that changed one of its
\* dependencies (triggerGameOver changes with highScore): the cleanup the
\* playing branch returned, then the body
GameLoopEffect ==
    IF <<gameState, speed, food, nextDirection, highScore>>' =
           <<gameState, speed, food, nextDirection, highScore>>
    THEN UNCHANGED timerVars
    ELSE LET hadCleanup == gameState = "playing"
             cleanedTimers == IF hadCleanup THEN Cleared(gameLoopRef, timers)
                                            ELSE timers
             cleanedRef == IF hadCleanup /\ gameLoopRef = "armed" THEN "cleared"
                                                                  ELSE gameLoopRef
         IN  IF gameState' # "playing"
             THEN /\ timers' = Cleared(cleanedRef, cleanedTimers)
                  /\ gameLoopRef' = "null"
             ELSE /\ timers' = cleanedTimers + 1
                  /\ gameLoopRef' = "armed"

\* setInterval(..., speed) and clearInterval: an interval that is armed
\* anew (the effect ran again) counts its period from the start, as does one
\* whose callback just ran (fired); otherwise the time that has passed stays
IntervalPhase(fired) ==
    elapsed' = IF elapsed = None THEN None
               ELSE IF fired \/ <<gameState, speed, food, nextDirection,
                                   highScore>>' #
                                 <<gameState, speed, food, nextDirection,
                                   highScore>>
               THEN Some(0)
               ELSE elapsed

\* fetch('/api/ai-snake', {body: {type: kind, data}}): the request is on its
\* way; a request sent while the endpoint is out of reach never completes
\* and is not followed
Send(kind, data) ==
    IF aiReachable
    THEN /\ issued < MaxRequests
         /\ issued' = issued + 1
         /\ inFlight' = inFlight \cup {[id |-> issued + 1, kind |-> kind,
                                         data |-> data]}
    ELSE UNCHANGED <<inFlight, issued>>

\* the page after its first render and effects
Mounted ==
    /\ gameState = "menu"
    /\ snake = <<Pos(10, 10)>>
    /\ food = Pos(15, 10)
    /\ direction = "RIGHT"
    /\ nextDirection = "RIGHT"
    /\ score = 0
    /\ scoreRef = 0
    /\ \E saved \in HighScorePrefs :
          /\ highScore = LoadHighScore(saved)
          /\ savedHighScore = saved
    \* the save-preferences effect runs after the first render
    /\ \E saved \in SpeedPrefs :
          /\ speed = LoadSpeed(saved)
          /\ savedSpeed = Some(LoadSpeed(saved))
    /\ touchStartRef = None
    /\ turns = 0
    /\ eaten = 0
    \* the game-loop effect ran once, not playing
    /\ gameLoopRef = "null"
    /\ timers = 0
    /\ isLoadingAi = FALSE
    /\ aiTip = ""
    /\ aiFeedback = ""
    /\ inFlight = {}
    /\ issued = 0
    /\ feedbackFrom = 0

\* the route handler has been given no request
ApiIdle == apiRequest = None /\ apiResponse = None

\* time is not followed
Untimed == elapsed = None

\* no call of generateFood is followed
NoFoodCall == foodCall = None /\ newFood = None /\ foodReturned = FALSE

\* the page on a first visit (no high score saved yet), while /api/ai-snake
\* is out of reach: the requests that are sent never complete
Init ==
    /\ Mounted
    /\ savedHighScore = None
    /\ aiReachable = FALSE
    /\ ApiIdle
    /\ Untimed
    /\ NoFoodCall

\* startGame without setNextDirection('RIGHT')
StartGameKeepsBuffer ==
    /\ snake' = <<Pos(10, 10)>>
    /\ food' \in GenerateFood(<<Pos(10, 10)>>)
    /\ direction' = "RIGHT"
    /\ score' = 0
    /\ scoreRef' = 0
    /\ speed' = LoadSpeed(savedSpeed)
    /\ savedSpeed' = Some(LoadSpeed(savedSpeed))
    /\ gameState' = "playing"
    /\ aiTip' = ""
    /\ aiFeedback' = ""
    /\ feedbackFrom' = 0
    /\ UNCHANGED <<nextDirection, highScore, savedHighScore, touchStartRef, turns,
                   eaten>>
    /\ GameLoopEffect
    /\ IntervalPhase(FALSE)
    /\ UNCHANGED <<isLoadingAi, inFlight, issued, aiReachable, apiVars, foodVars>>

\* startGame gives up the feedback requests that are on their way
StartGameCancelsFeedback ==
    /\ snake' = <<Pos(10, 10)>>
    /\ food' \in GenerateFood(<<Pos(10, 10)>>)
    /\ direction' = "RIGHT"
    /\ nextDirection' = "RIGHT"
    /\ score' = 0
    /\ scoreRef' = 0
    /\ speed' = LoadSpeed(savedSpeed)
    /\ savedSpeed' = Some(LoadSpeed(savedSpeed))
    /\ aiTip' = ""
    /\ aiFeedback' = ""
    /\ feedbackFrom' = 0
    /\ gameState' = "playing"
    /\ inFlight' = {r \in inFlight : r.kind # "feedback"}
    /\ UNCHANGED <<highScore, savedHighScore, touchStartRef, turns, eaten>>
    /\ GameLoopEffect
    /\ IntervalPhase(FALSE)
    /\ UNCHANGED <<isLoadingAi, issued, aiReachable, apiVars, foodVars>>

StartGameKeepsScore ==
    /\ snake' = <<Pos(10, 10)>>
    /\ food' \in GenerateFood(<<Pos(10, 10)>>)
    /\ direction' = "RIGHT"
    /\ nextDirection' = "RIGHT"
    /\ scoreRef' = score
    /\ speed' = LoadSpeed(savedSpeed)
    /\ savedSpeed' = Some(LoadSpeed(savedSpeed))
    /\ aiTip' = ""
    /\ aiFeedback' = ""
    /\ feedbackFrom' = 0
    /\ gameState' = "playing"
    /\ UNCHANGED <<score, highScore, savedHighScore, touchStartRef, turns, eaten>>
    /\ GameLoopEffect
    /\ IntervalPhase(FALSE)
    /\ UNCHANGED <<isLoadingAi, inFlight, issued, aiReachable, apiVars, foodVars>>

\* startGame
StartGame ==
    /\ snake' = <<Pos(10, 10)>>
    /\ food' \in GenerateFood(<<Pos(10, 10)>>)
    /\ direction' = "RIGHT"
    /\ nextDirection' = "RIGHT"
    /\ score' = 0
    /\ scoreRef' = 0
    /\ speed' = LoadSpeed(savedSpeed)
    /\ savedSpeed' = Some(LoadSpeed(savedSpeed))
    /\ aiTip' = ""
    /\ aiFeedback' = ""
    /\ feedbackFrom' = 0
    /\ gameState' = "playing"
    /\ UNCHANGED <<highScore, savedHighScore, touchStartRef, turns, eaten>>
    /\ GameLoopEffect
    /\ IntervalPhase(FALSE)
    /\ UNCHANGED <<isLoadingAi, inFlight, issued, aiReachable, apiVars, foodVars>>

\* the high score is set to the final score of every game
TriggerGameOverOverwrites(snakeLength, finalScore) ==
    /\ gameState' = "gameover"
    /\ highScore' = finalScore
    /\ savedHighScore' = Some(finalScore)
    /\ isLoadingAi' = TRUE
    /\ Send("feedback", Some([score |-> finalScore, highScore |-> highScore,
                              length |-> snakeLength]))
    /\ UNCHANGED <<aiTip, aiFeedback, feedbackFrom, aiReachable>>

\* the request carries the high score after its update
TriggerGameOverSendsNewHigh(snakeLength, finalScore) ==
    /\ gameState' = "gameover"
    /\ highScore' = IF finalScore > highScore THEN finalScore ELSE highScore
    /\ savedHighScore' = IF finalScore > highScore THEN Some(finalScore)
                                                      ELSE savedHighScore
    /\ isLoadingAi' = TRUE
    /\ Send("feedback", Some([score |-> finalScore,
                              highScore |-> Max(finalScore, highScore),
                              length |-> snakeLength]))
    /\ UNCHANGED <<aiTip, aiFeedback, feedbackFrom, aiReachable>>

\* the game ends only once no request is on its way
TriggerGameOverWaits(snakeLength, finalScore) ==
    /\ gameState' = IF inFlight = {} THEN "gameover" ELSE gameState
    /\ highScore' = IF finalScore > highScore THEN finalScore ELSE highScore
    /\ savedHighScore' = IF finalScore > highScore THEN Some(finalScore)
                                                      ELSE savedHighScore
    /\ isLoadingAi' = TRUE
    /\ Send("feedback", Some([score |-> finalScore, highScore |-> highScore,
                              length |-> snakeLength]))
    /\ UNCHANGED <<aiTip, aiFeedback, feedbackFrom, aiReachable>>

\* triggerGameOver(snakeLength, finalScore): the state, the high score and
\* the feedback request, which carries the highScore of the render
TriggerGameOver(snakeLength, finalScore) ==
    /\ gameState' = "gameover"
    /\ highScore' = IF finalScore > highScore THEN finalScore ELSE highScore
    /\ savedHighScore' = IF finalScore > highScore THEN Some(finalScore)
                                                      ELSE savedHighScore
    /\ isLoadingAi' = TRUE
    /\ Send("feedback", Some([score |-> finalScore, highScore |-> highScore,
                              length |-> snakeLength]))
    /\ UNCHANGED <<aiTip, aiFeedback, feedbackFrom, aiReachable>>

\* the decrement without the floor
NextSpeedNoFloor(currentSpeed) == currentSpeed - SPEED_INCREMENT

\* the interval grows with every food
NextSpeedGrows(currentSpeed) == currentSpeed + SPEED_INCREMENT

\* setSpeed(currentSpeed => Math.max(MIN_SPEED, currentSpeed - SPEED_INCREMENT))
NextSpeed(currentSpeed) == Max(MIN_SPEED, currentSpeed - SPEED_INCREMENT)

\* the tail is removed on every tick
NewSnakeAlwaysPops(currentSnake, head, ateFood) == Pop(<<head>> \o currentSnake)

\* [head, ...currentSnake], popped unless the food was eaten
NewSnake(currentSnake, head, ateFood) ==
    IF ateFood THEN <<head>> \o currentSnake ELSE Pop(<<head>> \o currentSnake)

\* the collision is noticed after the head was moved
CollideAfterMove(head) ==
    /\ TriggerGameOver(Len(snake), scoreRef)
    /\ snake' = Pop(<<head>> \o snake)
    /\ UNCHANGED <<food, score, scoreRef, speed, savedSpeed, eaten>>

\* a collision branch of the tick: triggerGameOver(currentSnake.length,
\* scoreRef.current); return currentSnake
Collide(head) ==
    /\ TriggerGameOver(Len(snake), scoreRef)
    /\ UNCHANGED <<snake, food, score, scoreRef, speed, savedSpeed, eaten>>

\* ------------------------------------------------------------- game loop
\* one run of the callback of an armed interval
Tick ==
    /\ timers > 0
    /\ elapsed # None => elapsed[1] = PeriodUnits
    /\ LET currentDirection == nextDirection
           head == MoveHead(snake[1], currentDirection)
       IN  /\ direction' = currentDirection
           /\ currentDirection # direction => turns < MaxTurns
           /\ turns' = IF currentDirection # direction THEN turns + 1 ELSE turns
           /\ IF HitsWall(head)
              THEN Collide(head)
              ELSE IF Occupies(snake, head)
              THEN Collide(head)
              ELSE IF head.x = food.x /\ head.y = food.y
              THEN /\ eaten < MaxFoods
                   /\ eaten' = eaten + 1
                   /\ score' = score + 10
                   /\ scoreRef' = score + 10
                   /\ food' \in GenerateFood(NewSnake(snake, head, TRUE))
                   /\ speed' = NextSpeed(speed)
                   /\ savedSpeed' = Some(NextSpeed(speed))
                   /\ snake' = NewSnake(snake, head, TRUE)
                   /\ UNCHANGED <<gameState, highScore, savedHighScore, aiVars>>
              ELSE /\ snake' = NewSnake(snake, head, FALSE)
                   /\ UNCHANGED <<gameState, highScore, savedHighScore, food,
                                  score, scoreRef, speed, savedSpeed, eaten,
                                  aiVars>>
    /\ UNCHANGED <<nextDirection, touchStartRef, apiVars, foodVars>>
    /\ GameLoopEffect
    /\ IntervalPhase(TRUE)

\* ---------------------------------------------------------------- keyboard
\* the direction a key asks for (None for the other keys)
KeyDirection(key) ==
    CASE key \in {"ArrowUp", "w"} -> "UP"
      [] key \in {"ArrowDown", "s"} -> "DOWN"
      [] key \in {"ArrowLeft", "a"} -> "LEFT"
      [] key \in {"ArrowRight", "d"} -> "RIGHT"
      [] OTHER -> NoDirection

\* the left keys compare with the direction they ask for
KeyBlockerLeftSlip(key) ==
    CASE key \in {"ArrowUp", "w"} -> "DOWN"
      [] key \in {"ArrowDown", "s"} -> "UP"
      [] key \in {"ArrowLeft", "a"} -> "LEFT"
      [] key \in {"ArrowRight", "d"} -> "LEFT"
      [] OTHER -> NoDirection

\* the direction the key's case compares `direction` with
KeyBlocker(key) ==
    CASE key \in {"ArrowUp", "w"} -> "DOWN"
      [] key \in {"ArrowDown", "s"} -> "UP"
      [] key \in {"ArrowLeft", "a"} -> "RIGHT"
      [] key \in {"ArrowRight", "d"} -> "LEFT"
      [] OTHER -> NoDirection

HandleKeyDown(key) ==
    IF gameState = "playing"
    THEN IF KeyDirection(key) # NoDirection
         THEN /\ nextDirection' = IF direction # KeyBlocker(key)
                                  THEN KeyDirection(key) ELSE nextDirection
              /\ UNCHANGED <<gameState, snake, food, direction, score, scoreRef,
                             highScore, speed, savedSpeed, savedHighScore,
                             touchStartRef, turns, eaten>>
              /\ GameLoopEffect
              /\ IntervalPhase(FALSE)
              /\ UNCHANGED <<aiVars, apiVars, foodVars>>
         ELSE IF key \in {"Escape", "p"}
         THEN /\ gameState' = "paused"
              /\ UNCHANGED <<snake, food, direction, nextDirection, score,
                             scoreRef, highScore, speed, savedSpeed,
                             savedHighScore, touchStartRef, turns, eaten>>
              /\ GameLoopEffect
              /\ IntervalPhase(FALSE)
              /\ UNCHANGED <<aiVars, apiVars, foodVars>>
         ELSE UNCHANGED vars
    ELSE IF gameState = "paused"
    THEN IF key \in {"Escape", "p"}
         THEN /\ gameState' = "playing"
              /\ UNCHANGED <<snake, food, direction, nextDirection, score,
                             scoreRef, highScore, speed, savedSpeed,
                             savedHighScore, touchStartRef, turns, eaten>>
              /\ GameLoopEffect
              /\ IntervalPhase(FALSE)
              /\ UNCHANGED <<aiVars, apiVars, foodVars>>
         ELSE UNCHANGED vars
    ELSE IF key \in {"Enter", " "}
         THEN StartGame
         ELSE UNCHANGED vars

\* ------------------------------------------------------------------- touch
HandleTouchStart(tx, ty) ==
    /\ touchStartRef' = Some(Pos(tx, ty))
    /\ UNCHANGED <<gameState, snake, food, direction, nextDirection, score,
                   scoreRef, highScore, speed, savedSpeed, savedHighScore,
                   turns, eaten>>
    /\ GameLoopEffect
    /\ IntervalPhase(FALSE)
    /\ UNCHANGED <<aiVars, apiVars, foodVars>>

\* the swipe is compared with the buffered direction
SwipeNextAgainstBuffer(deltaX, deltaY, dir, next) ==
    IF Abs(deltaX) > Abs(deltaY)
    THEN IF deltaX > minSwipe /\ next # "LEFT" THEN "RIGHT"
         ELSE IF deltaX < -minSwipe /\ next # "RIGHT" THEN "LEFT"
         ELSE next
    ELSE IF deltaY > minSwipe /\ next # "UP" THEN "DOWN"
         ELSE IF deltaY < -minSwipe /\ next # "DOWN" THEN "UP"
         ELSE next

\* the value handleTouchEnd leaves in nextDirection
SwipeNext(deltaX, deltaY, dir, next) ==
    IF Abs(deltaX) > Abs(deltaY)
    THEN IF deltaX > minSwipe /\ dir # "LEFT" THEN "RIGHT"
         ELSE IF deltaX < -minSwipe /\ dir # "RIGHT" THEN "LEFT"
         ELSE next
    ELSE IF deltaY > minSwipe /\ dir # "UP" THEN "DOWN"
         ELSE IF deltaY < -minSwipe /\ dir # "DOWN" THEN "UP"
         ELSE next

HandleTouchEnd(ex, ey) ==
    IF touchStartRef = None
    THEN UNCHANGED vars
    ELSE /\ nextDirection' = SwipeNext(ex - touchStartRef[1].x, ey - touchStartRef[1].y,
                                       direction, nextDirection)
         /\ touchStartRef' = None
         /\ UNCHANGED <<gameState, snake, food, direction, score, scoreRef,
                        highScore, speed, savedSpeed, savedHighScore, turns, eaten>>
         /\ GameLoopEffect
         /\ IntervalPhase(FALSE)
         /\ UNCHANGED <<aiVars, apiVars, foodVars>>

\* ------------------------------------------------------- on-screen buttons
HandleDirectionButton(newDirection) ==
    IF gameState # "playing"
    THEN UNCHANGED vars
    ELSE /\ nextDirection' = IF direction # opposites(newDirection)
                             THEN newDirection ELSE nextDirection
         /\ UNCHANGED <<gameState, snake, food, direction, score, scoreRef,
                        highScore, speed, savedSpeed, savedHighScore,
                        touchStartRef, turns, eaten>>
         /\ GameLoopEffect
         /\ IntervalPhase(FALSE)
         /\ UNCHANGED <<aiVars, apiVars, foodVars>>

\* the pause button of the header (rendered while playing)
ClickPause ==
    /\ gameState = "playing"
    /\ gameState' = "paused"
    /\ UNCHANGED <<snake, food, direction, nextDirection, score, scoreRef,
                   highScore, speed, savedSpeed, savedHighScore, touchStartRef,
                   turns, eaten>>
    /\ GameLoopEffect
    /\ IntervalPhase(FALSE)
    /\ UNCHANGED <<aiVars, apiVars, foodVars>>

\* the Resume button of the paused overlay
ClickResume ==
    /\ gameState = "paused"
    /\ gameState' = "playing"
    /\ UNCHANGED <<snake, food, direction, nextDirection, score, scoreRef,
                   highScore, speed, savedSpeed, savedHighScore, touchStartRef,
                   turns, eaten>>
    /\ GameLoopEffect
    /\ IntervalPhase(FALSE)
    /\ UNCHANGED <<aiVars, apiVars, foodVars>>

\* the Menu button is also offered while playing
ClickMenuWhilePlaying ==
    /\ gameState \in {"playing", "paused", "gameover"}
    /\ gameState' = "menu"
    /\ UNCHANGED <<snake, food, direction, nextDirection, score, scoreRef,
                   highScore, speed, savedSpeed, savedHighScore, touchStartRef,
                   turns, eaten>>
    /\ GameLoopEffect
    /\ IntervalPhase(FALSE)
    /\ UNCHANGED <<aiVars, apiVars, foodVars>>

\* the Menu button of the paused and game-over overlays
ClickMenu ==
    /\ gameState \in {"paused", "gameover"}
    /\ gameState' = "menu"
    /\ UNCHANGED <<snake, food, direction, nextDirection, score, scoreRef,
                   highScore, speed, savedSpeed, savedHighScore, touchStartRef,
                   turns, eaten>>
    /\ GameLoopEffect
    /\ IntervalPhase(FALSE)
    /\ UNCHANGED <<aiVars, apiVars, foodVars>>

\* the Play Game / Play Again buttons of the menu and game-over overlays
ClickPlay ==
    /\ gameState \in {"menu", "gameover"}
    /\ StartGame

\* the speed slider of the menu settings, followed by the save effect
ChangeSpeed(v) ==
    /\ gameState = "menu"
    /\ speed' = v
    /\ savedSpeed' = Some(v)
    /\ UNCHANGED <<gameState, snake, food, direction, nextDirection, score,
                   scoreRef, highScore, savedHighScore, touchStartRef, turns,
                   eaten>>
    /\ GameLoopEffect
    /\ IntervalPhase(FALSE)
    /\ UNCHANGED <<aiVars, apiVars, foodVars>>

\* ---------------------------------------------------------------- AI client
\* what a request can come back with: a JSON body (content and fallback are
\* the fields the client reads), a rejected fetch, or a body that is no JSON
AiText == "Stay near the centre."
ServerFallbacks ==
    {"Keep your snake near the center to give yourself more reaction time!"}

Replies ==
    {[outcome |-> "json", content |-> Some(AiText), fallback |-> None],
     [outcome |-> "json", content |-> Some(""), fallback |-> None],
     [outcome |-> "json", content |-> None, fallback |-> None],
     [outcome |-> "rejected", content |-> None, fallback |-> None],
     [outcome |-> "unparsable", content |-> None, fallback |-> None]}
    \cup {[outcome |-> "json", content |-> None, fallback |-> Some(f)] :
             f \in ServerFallbacks}

\* a field of the body that is present and not the empty string
Truthy(field) == field # None /\ field[1] # ""

\* data.content || data.fallback, '' standing for a missing field
TipTextNoDefault(reply) ==
    IF reply.outcome # "json"
    THEN "Focus on the center and plan your moves ahead!"
    ELSE IF Truthy(reply.content) THEN reply.content[1]
    ELSE IF Truthy(reply.fallback) THEN reply.fallback[1]
    ELSE ""

\* the string fetchAiTip hands to setAiTip
TipText(reply) ==
    IF reply.outcome # "json"
    THEN "Focus on the center and plan your moves ahead!"
    ELSE IF Truthy(reply.content) THEN reply.content[1]
    ELSE IF Truthy(reply.fallback) THEN reply.fallback[1]
    ELSE "Keep practicing and you'll improve!"

\* the string the feedback chain hands to setAiFeedback
FeedbackText(reply) ==
    IF reply.outcome # "json"
    THEN "Nice try! Keep playing to beat your high score!"
    ELSE IF Truthy(reply.content) THEN reply.content[1]
    ELSE IF Truthy(reply.fallback) THEN reply.fallback[1]
    ELSE "Great effort!"

\* the Get AI Tip button of the menu (disabled while isLoadingAi): fetchAiTip
\* up to its first await
FetchAiTip ==
    /\ gameState = "menu"
    /\ ~isLoadingAi
    /\ isLoadingAi' = TRUE
    /\ Send("tip", None)
    /\ UNCHANGED <<gameState, snake, food, direction, nextDirection, score,
                   scoreRef, highScore, speed, savedSpeed, savedHighScore,
                   touchStartRef, turns, eaten>>
    /\ GameLoopEffect
    /\ IntervalPhase(FALSE)
    /\ UNCHANGED <<aiTip, aiFeedback, feedbackFrom, aiReachable, apiVars, foodVars>>

\* the rest of fetchAiTip, once the request r has come back with reply
TipResponse(r, reply) ==
    /\ r \in inFlight
    /\ r.kind = "tip"
    /\ inFlight' = inFlight \ {r}
    /\ aiTip' = TipText(reply)
    /\ isLoadingAi' = FALSE
    /\ UNCHANGED <<gameState, snake, food, direction, nextDirection, score,
                   scoreRef, highScore, speed, savedSpeed, savedHighScore,
                   touchStartRef, turns, eaten>>
    /\ GameLoopEffect
    /\ IntervalPhase(FALSE)
    /\ UNCHANGED <<aiFeedback, issued, feedbackFrom, aiReachable, apiVars, foodVars>>

\* the then/catch/finally chain of triggerGameOver, once r has come back
FeedbackResponse(r, reply) ==
    /\ r \in inFlight
    /\ r.kind = "feedback"
    /\ inFlight' = inFlight \ {r}
    /\ aiFeedback' = FeedbackText(reply)
    /\ feedbackFrom' = r.id
    /\ isLoadingAi' = FALSE
    /\ UNCHANGED <<gameState, snake, food, direction, nextDirection, score,
                   scoreRef, highScore, speed, savedSpeed, savedHighScore,
                   touchStartRef, turns, eaten>>
    /\ GameLoopEffect
    /\ IntervalPhase(FALSE)
    /\ UNCHANGED <<aiTip, issued, aiReachable, apiVars, foodVars>>

Next ==
    \/ Tick
    \/ FetchAiTip
    \/ \E key \in Keys : HandleKeyDown(key)
    \/ \E tx \in TouchStarts, ty \in TouchStarts : HandleTouchStart(tx, ty)
    \/ \E e \in TouchEnds : HandleTouchEnd(e[1], e[2])
    \/ \E d \in Directions : HandleDirectionButton(d)
    \/ ClickPause
    \/ ClickResume
    \/ ClickMenu
    \/ ClickPlay
    \/ \E v \in SliderValues : ChangeSpeed(v)

Spec == Init /\ [][Next]_vars

\* ------------------------------------------------- route /api/ai-snake
\* the tips of getFallbackResponse
FallbackTips ==
    {"Keep your snake near the center to give yourself more reaction time!",
     "Try to create a pattern - it helps avoid trapping yourself!",
     "Move deliberately - speed isn't always your friend in tight spots!",
     "Watch where your tail is heading and plan your path accordingly!",
     "Corner yourself less by circling in wide patterns!"}

\* the cases of the switch on type
RecognisedTypes == {"tip", "feedback", "theme"}

\* what request.json() gives: it rejects ("unparsable"), or gives null, or
\* an object whose type and data may be missing
ApiBodies ==
    {[parsed |-> "unparsable", type |-> None, data |-> None],
     [parsed |-> "null", type |-> None, data |-> None]}
    \cup [parsed : {"object"},
          type : {None, Some("tip"), Some("feedback"), Some("theme"),
                  Some("bogus")},
          data : {None, Some([score |-> 10, highScore |-> 0, length |-> 2])}]

\* what zai.chat.completions.create does: it rejects, or resolves without
\* choices at all, with no choice, with a choice whose content is null, or
\* with a choice that has a content
Completions ==
    {[result |-> "rejects", content |-> None],
     [result |-> "no choices field", content |-> None],
     [result |-> "empty choices", content |-> None],
     [result |-> "choice", content |-> None],
     [result |-> "choice", content |-> Some("")],
     [result |-> "choice", content |-> Some("   ")],
     [result |-> "choice", content |-> Some("  Stay near the centre. ")]}

ApiRequests == [body : ApiBodies, createOk : BOOLEAN, completion : Completions]

\* String.prototype.trim on the contents above
Trim(str) ==
    CASE str = "   " -> ""
      [] str = "  Stay near the centre. " -> "Stay near the centre."
      [] OTHER -> str

\* the responses of the catch block
ApiFailure ==
    {[status |-> 500, success |-> Some(FALSE), content |-> None,
      error |-> Some("Failed to get AI response"), fallback |-> Some(tip),
      type |-> None] : tip \in FallbackTips}

\* POST: the responses it can give to req
POST(req) ==
    \* const { type, data } = await request.json()
    IF req.body.parsed # "object" THEN ApiFailure
    \* const zai = await ZAI.create()
    ELSE IF ~req.createOk THEN ApiFailure
    \* the default case of the switch
    ELSE IF req.body.type = None \/ req.body.type[1] \notin RecognisedTypes
    THEN {[status |-> 400, success |-> None, content |-> None,
           error |-> Some("Invalid request type"), fallback |-> None,
           type |-> None]}
    \* await zai.chat.completions.create(...), completion.choices[0]
    ELSE IF req.completion.result \in {"rejects", "no choices field"}
    THEN ApiFailure
    \* completion.choices[0]?.message?.content || ''
    ELSE LET content == IF req.completion.content = None
                        THEN "" ELSE req.completion.content[1]
         IN  {[status |-> 200, success |-> Some(TRUE),
               content |-> Some(Trim(content)), error |-> None,
               fallback |-> None, type |-> req.body.type]}

\* the route handler answers the request it was given
Post ==
    /\ apiRequest # None
    /\ apiResponse = None
    /\ apiResponse' \in {Some(response) : response \in POST(apiRequest[1])}
    /\ UNCHANGED <<gameState, snake, food, direction, nextDirection, score,
                   scoreRef, highScore, speed, savedSpeed, savedHighScore,
                   touchStartRef, turns, eaten, timerVars, aiVars, apiRequest,
                   elapsed, foodVars>>

\* the route handler with one request, any of ApiRequests
InitApi ==
    /\ Mounted
    /\ aiReachable = FALSE
    /\ apiRequest \in {Some(req) : req \in ApiRequests}
    /\ apiResponse = None
    /\ Untimed
    /\ NoFoodCall

NextApi == Post

SpecApi == InitApi /\ [][NextApi]_vars

\* ------------------------------------------------------ games in mid-play
\* the cells the snakes of the games taken up in mid-play lie in
LoopCells == {Pos(cx, cy) : cx \in 10..11, cy \in 10..12}

\* the snakes of n segments in LoopCells: every segment next to the one
\* before it, no cell used twice
RECURSIVE Chains(_)
Chains(n) ==
    IF n = 1
    THEN {<<c>> : c \in LoopCells}
    ELSE UNION {{<<c>> \o body : c \in {q \in LoopCells :
                                          /\ Abs(q.x - body[1].x)
                                               + Abs(q.y - body[1].y) = 1
                                          /\ ~Occupies(body, q)}} :
                body \in Chains(n - 1)}

\* the speed of a game that started at startSpeed and has eaten k foods
RECURSIVE SpeedAfter(_, _)
SpeedAfter(startSpeed, k) ==
    IF k = 0 THEN startSpeed ELSE SpeedAfter(NextSpeed(startSpeed), k - 1)

\* a game in mid-play: the snake has eaten one food for each segment after
\* the first (the food of every session can fall on any free cell, so each
\* such snake can be grown on the spot), the direction is the one of its
\* last move, the buffered direction is any but the reverse of it
InitLoop ==
    /\ gameState = "playing"
    /\ snake \in UNION {Chains(n) : n \in 1..MaxLoopLen}
    /\ direction \in {d \in Directions :
                         Len(snake) >= 2 => snake[1] = MoveHead(snake[2], d)}
    /\ nextDirection \in {d \in Directions : d # opposites(direction)}
    /\ food \in {p \in SampleCells \cup {Pos(15, 10)} : ~Occupies(snake, p)}
    /\ score = 10 * (Len(snake) - 1)
    /\ scoreRef = score
    /\ \E saved \in HighScorePrefs :
          /\ highScore = LoadHighScore(saved)
          /\ savedHighScore = saved
    /\ \E saved \in SpeedPrefs :
          /\ speed = SpeedAfter(LoadSpeed(saved), Len(snake) - 1)
          /\ savedSpeed = Some(speed)
    /\ touchStartRef = None
    /\ turns = 0
    /\ eaten = 0
    /\ gameLoopRef = "armed"
    /\ timers = 1
    /\ isLoadingAi = FALSE
    /\ aiTip = ""
    /\ aiFeedback = ""
    /\ inFlight = {}
    /\ issued = 0
    /\ feedbackFrom = 0
    /\ aiReachable = FALSE
    /\ apiRequest = None
    /\ apiResponse = None
    /\ Untimed
    /\ NoFoodCall

NextLoop ==
    \/ Tick
    \/ \E key \in {"ArrowUp", "ArrowDown", "ArrowLeft", "ArrowRight"} :
          HandleKeyDown(key)
    \/ ClickPlay

SpecLoop == InitLoop /\ [][NextLoop]_vars

\* the page with /api/ai-snake in reach: the game is started, left to run
\* into the wall and started again, while requests are sent and come back
InitAi == Mounted /\ aiReachable = TRUE /\ ApiIdle /\ Untimed /\ NoFoodCall

NextAi ==
    \/ Tick
    \/ ClickPlay
    \/ ClickMenu
    \/ FetchAiTip
    \/ \E r \in inFlight, reply \in Replies : TipResponse(r, reply)
    \/ \E r \in inFlight, reply \in Replies : FeedbackResponse(r, reply)

SpecAi == InitAi /\ [][NextAi]_vars

\* ------------------------------------------------------- the interval timed
\* one unit of time passes while an interval is armed and its period is not
\* over yet (once it is over, the callback is the next thing the timer does)
TimePasses ==
    /\ elapsed # None
    /\ timers > 0
    /\ elapsed[1] < PeriodUnits
    /\ elapsed' = Some(elapsed[1] + 1)
    /\ UNCHANGED <<gameState, snake, food, direction, nextDirection, score,
                   scoreRef, highScore, speed, savedSpeed, savedHighScore,
                   touchStartRef, turns, eaten, timerVars, aiVars, apiVars,
                   foodVars>>

\* the page on a first visit with the time of the interval followed: the
\* callback runs when a whole period has passed since the interval was armed
\* or last fired; the player starts games and steers with the direction
\* buttons
InitTimer ==
    /\ Mounted
    /\ savedHighScore = None
    /\ aiReachable = FALSE
    /\ ApiIdle
    /\ elapsed = Some(0)
    /\ NoFoodCall

NextTimer ==
    \/ Tick
    \/ TimePasses
    \/ ClickPlay
    \/ \E newDirection \in Directions : HandleDirectionButton(newDirection)

SpecTimer == InitTimer /\ [][NextTimer]_vars

\* ------------------------------------------- generateFood sample by sample
\* cell k of the path that runs through the rows of the grid in turn, left
\* to right in the even rows and right to left in the odd ones
Serpentine(k) ==
    LET row == k \div GRID_SIZE
        col == k % GRID_SIZE
    IN  Pos(IF row % 2 = 0 THEN col ELSE GRID_SIZE - 1 - col, row)

\* the snake of n segments lying on the first n cells of the path, head last
\* on the path
SerpentineSnake(n) == [i \in 1..n |-> Serpentine(n - i)]

\* lengths of the grown snake generateFood is called with: short ones, one
\* that leaves a single cell free and one that fills the grid
FoodCallLens == {2, 3, GRID_SIZE * GRID_SIZE - 1, GRID_SIZE * GRID_SIZE}

\* the samples of the loop that are tried: the cells of the first and of
\* the last row of the grid
FoodSamples ==
    {Serpentine(k) : k \in (0..(GRID_SIZE - 1)) \cup
                          ((GRID_SIZE * GRID_SIZE - GRID_SIZE)..
                             (GRID_SIZE * GRID_SIZE - 1))}

DrawFoodOnce(cell) ==
    /\ foodCall # None
    /\ ~foodReturned
    /\ newFood' = Some(cell)
    /\ foodReturned' = TRUE
    /\ UNCHANGED <<gameState, snake, food, direction, nextDirection, score,
                   scoreRef, highScore, speed, savedSpeed, savedHighScore,
                   touchStartRef, turns, eaten, timerVars, aiVars, apiVars,
                   elapsed, foodCall>>

\* one round of the do-while loop of generateFood: a sample is drawn and
\* the loop goes on while a segment of currentSnake lies on it
DrawFood(cell) ==
    /\ foodCall # None
    /\ ~foodReturned
    /\ newFood' = Some(cell)
    /\ foodReturned' = ~Occupies(foodCall[1], cell)
    /\ UNCHANGED <<gameState, snake, food, direction, nextDirection, score,
                   scoreRef, highScore, speed, savedSpeed, savedHighScore,
                   touchStartRef, turns, eaten, timerVars, aiVars, apiVars,
                   elapsed, foodCall>>

\* a round of the loop that draws a free cell
DrawsFreeCell == \E cell \in FoodSamples : DrawFood(cell) /\ foodReturned'

\* a game in mid-play at the tick that eats: the snake lies on the path, the
\* food on the next cell of the path, the tick has moved the head onto it
\* and calls generateFood with the grown snake
InitFood ==
    \E n \in FoodCallLens :
       LET newSnake == SerpentineSnake(n)
       IN  /\ gameState = "playing"
           /\ snake = Tail(newSnake)
           /\ food = newSnake[1]
           /\ nextDirection \in {d \in Directions : MoveHead(snake[1], d) = food}
           /\ direction \in {d \in Directions :
                                IF Len(snake) >= 2
                                THEN snake[1] = MoveHead(snake[2], d)
                                ELSE d = nextDirection}
           /\ score = 10 * (Len(snake) - 1)
           /\ scoreRef = score
           /\ highScore = 0
           /\ savedHighScore = None
           /\ speed = Max(MIN_SPEED,
                          INITIAL_SPEED - SPEED_INCREMENT * (Len(snake) - 1))
           /\ savedSpeed = Some(speed)
           /\ touchStartRef = None
           /\ turns = 0
           /\ eaten = 0
           /\ gameLoopRef = "armed"
           /\ timers = 1
           /\ isLoadingAi = FALSE
           /\ aiTip = ""
           /\ aiFeedback = ""
           /\ inFlight = {}
           /\ issued = 0
           /\ feedbackFrom = 0
           /\ aiReachable = FALSE
           /\ ApiIdle
           /\ Untimed
           /\ foodCall = Some(newSnake)
           /\ newFood = None
           /\ foodReturned = FALSE

\* the rounds of the loop, and the tick: the one that eats completes when
\* the call has returned, the ticks after it run as they do anywhere
NextFood ==
    \/ \E cell \in FoodSamples : DrawFood(cell)
    \/ Tick

\* Math.random() gives every sample again and again, so a round
\* that draws a free cell is not put off for ever while there is one
SpecFood == InitFood /\ [][NextFood]_vars /\ WF_vars(DrawsFreeCell)

TypeOK ==
    /\ gameState \in GameStates
    /\ direction \in Directions
    /\ nextDirection \in Directions
    /\ Len(snake) \in 1..(MaxFoods + MaxLoopLen)
    /\ gameLoopRef \in {"null", "armed", "cleared"}
    /\ timers \in 0..1
    /\ isLoadingAi \in BOOLEAN
    /\ issued \in 0..MaxRequests
    /\ feedbackFrom \in 0..MaxRequests
    /\ \A r \in inFlight : r.id \in 1..issued /\ r.kind \in {"tip", "feedback"}


\* ------------------------------------------------------------ properties
\* vocabulary of the properties, stated apart from the operators of the model
InGrid(p) == p.x >= 0 /\ p.x < GRID_SIZE /\ p.y >= 0 /\ p.y < GRID_SIZE

Reverse(d) ==
    IF d = "UP" THEN "DOWN" ELSE IF d = "DOWN" THEN "UP"
    ELSE IF d = "LEFT" THEN "RIGHT" ELSE "LEFT"

\* p plus the unit vector of d
Step(p, d) ==
    [x |-> p.x + (IF d = "RIGHT" THEN 1 ELSE IF d = "LEFT" THEN -1 ELSE 0),
     y |-> p.y + (IF d = "DOWN" THEN 1 ELSE IF d = "UP" THEN -1 ELSE 0)]

OnSnake(s, p) == \E i \in 1..Len(s) : s[i] = p

\* the head a tick taken now would compute
TickHead == Step(snake[1], nextDirection)

FoodOffSnake == InGrid(food) /\ ~OnSnake(snake, food)

\* C2 witness: food was eaten and placed again, and the snake moved on
FoodReplaced ==
    gameState = "playing" /\ Len(snake) = 2 /\ snake[2] # Pos(10, 10)

\* C3: a tick that does not collide puts the new head (old head plus the
\* unit vector of the applied direction) in front of the old snake and drops
\* the last element exactly when the new head is not the food cell, so the
\* length grows by one iff the food was eaten.
TickMovesSnake ==
    [][(Tick /\ InGrid(TickHead) /\ ~OnSnake(snake, TickHead)) =>
         /\ snake' = IF TickHead = food
                     THEN <<TickHead>> \o snake
                     ELSE SubSeq(<<TickHead>> \o snake, 1, Len(snake))
         /\ (Len(snake') = Len(snake) + 1) <=> (TickHead = food)
         /\ (Len(snake') = Len(snake)) <=> (TickHead # food)]_vars

\* C3 witness: the snake grew on one tick and kept its length on later ones
GrewThenMoved ==
    /\ gameState = "playing"
    /\ snake = <<Pos(13, 10), Pos(12, 10)>>

\* C4: a tick whose new head is the food cell grows the snake by one, adds
\* exactly 10 to the score, lowers the speed by 5 but not below 50 and puts
\* the food on a cell the grown snake does not occupy, all in that one step;
\* a tick that neither collides nor eats leaves score, speed and food alone.
EatingTickEffects ==
    [][(Tick /\ InGrid(TickHead) /\ ~OnSnake(snake, TickHead)) =>
         IF TickHead = food
         THEN /\ Len(snake') = Len(snake) + 1
              /\ score' = score + 10
              /\ speed' = (IF speed - 5 < 50 THEN 50 ELSE speed - 5)
              /\ InGrid(food')
              /\ ~OnSnake(snake', food')
         ELSE /\ score' = score
              /\ speed' = speed
              /\ food' = food]_vars

\* C4 witness: food eaten in a session whose speed was at the minimum
AteAtMinimumSpeed ==
    /\ gameState = "playing"
    /\ score = 10
    /\ Len(snake) = 2
    /\ speed = MIN_SPEED

\* the keys and the swipes (from a touch at (100,100), along the dominant
\* axis and longer than the threshold) that ask for d
KeysFor(d) ==
    IF d = "UP" THEN {"ArrowUp", "w"} ELSE IF d = "DOWN" THEN {"ArrowDown"}
    ELSE IF d = "LEFT" THEN {"ArrowLeft"} ELSE {"ArrowRight"}

SwipesFor(d) ==
    IF d = "UP" THEN {<<70, 60>>}
    ELSE IF d = "DOWN" THEN {<<70, 140>>}
    ELSE IF d = "LEFT" THEN {<<60, 70>>}
    ELSE {<<140, 70>>}

\* a step in which one of the three adapters handles a request for d
Requests(d) ==
    \/ \E key \in KeysFor(d) : HandleKeyDown(key)
    \/ HandleDirectionButton(d)
    \/ /\ touchStartRef = Some(Pos(100, 100))
       /\ \E e \in SwipesFor(d) : HandleTouchEnd(e[1], e[2])

NoReversal ==
    /\ [](nextDirection # Reverse(direction))
    /\ [][Tick => (direction' = nextDirection /\ direction' # Reverse(direction))]_vars

\* C6 witness: the snake turned down on the first tick, went on, and a request
\* for the next turn is buffered
TurnedAndBuffered ==
    /\ gameState = "playing"
    /\ direction = "DOWN"
    /\ nextDirection = "RIGHT"
    /\ snake[1] = Pos(10, 12)

\* C7: the game starts in menu and its state changes only by menu->playing,
\* playing->paused, paused->playing, paused->menu, playing->gameover (a tick
\* that collides), gameover->playing and gameover->menu; the changes into
\* playing from menu or gameover are starts (they reset the snake).
AllowedTransitions ==
    {<<"menu", "playing">>, <<"playing", "paused">>, <<"paused", "playing">>,
     <<"paused", "menu">>, <<"playing", "gameover">>, <<"gameover", "playing">>,
     <<"gameover", "menu">>}

OnlyAllowedTransitions ==
    /\ gameState = "menu"
    /\ [][/\ gameState' # gameState => <<gameState, gameState'>> \in AllowedTransitions
          /\ (gameState = "playing" /\ gameState' = "gameover") =>
                 (~InGrid(TickHead) \/ OnSnake(snake, TickHead))
          /\ (gameState \in {"menu", "gameover"} /\ gameState' = "playing") =>
                 (snake' = <<Pos(10, 10)>> /\ score' = 0)]_vars

\* C7 witness: a session that followed one in which food was eaten ended in
\* a collision
LaterGameOver == gameState = "gameover" /\ eaten = 1 /\ score = 0

\* C8: a command received in a state where it does not apply changes no game
\* data: a direction request from the keyboard, a swipe or a button in menu,
\* paused or gameover leaves snake, food, both directions, score and speed
\* unchanged, and a pause key in menu or gameover, or a start key in playing
\* or paused, changes nothing.
InapplicableCommandsAreNoOps ==
    [][/\ (gameState # "playing" /\ \E d \in Directions : Requests(d)) =>
              UNCHANGED <<gameState, gameData>>
       /\ (gameState \in {"menu", "gameover"}
              /\ \E key \in {"Escape", "p"} : HandleKeyDown(key)) =>
              UNCHANGED <<gameState, gameData>>
       /\ (gameState \in {"playing", "paused"}
              /\ \E key \in {"Enter", " "} : HandleKeyDown(key)) =>
              UNCHANGED <<gameState, gameData>>]_vars

\* C9: a start from menu or gameover leads to playing with the snake
\* [(10,10)], both directions RIGHT, score 0, the speed of the saved
\* preference (150 when there is none) and the food on a cell of the grid
\* other than (10,10).
StartResets ==
    [][(gameState \in {"menu", "gameover"}
          /\ ((\E key \in {"Enter", " "} : HandleKeyDown(key)) \/ ClickPlay)) =>
         /\ gameState' = "playing"
         /\ snake' = <<Pos(10, 10)>>
         /\ direction' = "RIGHT"
         /\ nextDirection' = "RIGHT"
         /\ score' = 0
         /\ speed' = (IF savedSpeed = None THEN 150 ELSE savedSpeed[1])
         /\ InGrid(food')
         /\ food' # Pos(10, 10)]_vars

\* C9 witness: a session has just started after one that ate food and turned
RestartedAfterPlay ==
    /\ gameState = "playing"
    /\ eaten = 1
    /\ turns = 1
    /\ score = 0
    /\ snake = <<Pos(10, 10)>>
    /\ speed = 145

\* C10: a tick whose new head is outside the grid ends the game and leaves
\* snake, score, food and speed as they were, and no tick produces a snake
\* with a segment outside the grid.
WallCollisionFreezes ==
    [][Tick =>
         /\ \A i \in 1..Len(snake') : InGrid(snake'[i])
         /\ ~InGrid(TickHead) =>
               /\ gameState' = "gameover"
               /\ snake' = snake
               /\ score' = score
               /\ food' = food
               /\ speed' = speed]_vars

\* C10 witness: the game ended with the head on the last column, heading right
EndedAtRightWall ==
    /\ gameState = "gameover"
    /\ snake[1].x = GRID_SIZE - 1
    /\ direction = "RIGHT"

\* C12: every transition to gameover makes the high score the larger of the
\* prior high score and the final score, changing and saving it only when the
\* final score is strictly larger; the high score never decreases, no step
\* other than a colliding tick changes it, and in gameover it is at least
\* the final score of the session.
HighScoreIsMax ==
    /\ [][(gameState # "gameover" /\ gameState' = "gameover") =>
             /\ highScore' = (IF score > highScore THEN score ELSE highScore)
             /\ (highScore' # highScore) <=> (score > highScore)
             /\ IF score > highScore
                THEN savedHighScore' = <<score>>
                ELSE savedHighScore' = savedHighScore]_vars
    /\ [][highScore' >= highScore]_vars
    /\ [][(highScore' # highScore \/ savedHighScore' # savedHighScore) =>
             (Tick /\ gameState = "playing" /\ gameState' = "gameover")]_vars
    /\ [](gameState = "gameover" => highScore >= score)

\* C12 witness: a session that scored 10 has ended and 10 is the high score
HighScoreReached ==
    /\ gameState = "gameover"
    /\ score = 10
    /\ highScore = 10
    /\ savedHighScore = <<10>>

\* C13: from a pause in playing to the resume, with no tick in between, the
\* snake, the food, the score, the speed and both directions keep the values
\* they had before the pause: the pause, every step taken while paused and
\* the resume leave them unchanged.
PauseResumeKeepsData ==
    [][(\/ gameState = "playing" /\ gameState' = "paused"
        \/ gameState = "paused" /\ gameState' \in {"paused", "playing"}) =>
         UNCHANGED gameData]_vars

\* C14: at most one interval is armed, and one is armed exactly when the
\* state is playing; a tick is processed only while playing, so the snake
\* does not change in menu, paused or gameover (a start replaces it as it
\* leaves menu or gameover) and no tick follows the colliding tick.
TimerOnlyWhilePlaying ==
    /\ [](timers <= 1 /\ (timers = 1 <=> gameState = "playing"))
    /\ [][Tick => gameState = "playing"]_vars
    /\ [][gameState # "playing" =>
             \/ snake' = snake
             \/ gameState \in {"menu", "gameover"} /\ gameState' = "playing"]_vars
    /\ [][gameState = "gameover" => ~Tick]_vars

\* C14 witness: a game that grew the snake is paused and no interval is armed
PausedWithoutTimer ==
    /\ gameState = "paused"
    /\ timers = 0
    /\ Len(snake) = 2
    /\ nextDirection = "DOWN"

\* C19: the speed is never below 50; from the start of a session to its end
\* (while playing or paused, up to the game over) no step raises it, and a
\* tick that eats lowers it by 5, or to 50 when that would go below 50.
SpeedNeverRises ==
    /\ [](speed >= 50)
    /\ [][(gameState \in {"playing", "paused"}
             /\ gameState' \in {"playing", "paused", "gameover"}) =>
             speed' <= speed]_vars
    /\ [][(Tick /\ InGrid(TickHead) /\ ~OnSnake(snake, TickHead)
             /\ TickHead = food) =>
             speed' = (IF speed - 5 < 50 THEN 50 ELSE speed - 5)]_vars

\* C19 witness: a session that started at 150 has eaten and runs at 145
SpeedLowered ==
    /\ gameState = "playing"
    /\ speed = 145
    /\ score = 10
    /\ snake[1].x > 12

\* C11: a tick whose new head is on a segment of the snake as it is before
\* the move, the last segment included (the cell the move would vacate),
\* ends the game and leaves the snake as it was.
SelfCollisionEndsGame ==
    [][(Tick /\ InGrid(TickHead) /\ OnSnake(snake, TickHead)) =>
         (gameState' = "gameover" /\ snake' = snake)]_vars

\* C11 witness: a snake of four segments turned round a 2x2 block and the
\* game ended as its head was to enter the cell of its tail
EndedOnOwnTail ==
    /\ gameState = "gameover"
    /\ Len(snake) = 4
    /\ Step(snake[1], direction) = snake[4]

\* the steps of the AI client: a tip is asked for, or a request comes back
AiEvent ==
    \/ FetchAiTip
    \/ \E r \in inFlight, reply \in Replies :
          TipResponse(r, reply) \/ FeedbackResponse(r, reply)

\* C15: a step from playing to gameover sends exactly one request, a
\* feedback request with the final score, the high score as it was before
\* the step and the length of the snake before the step; no other step
\* sends a feedback request.
OneFeedbackPerGameOver ==
    [][LET sent == inFlight' \ inFlight
       IN  IF gameState = "playing" /\ gameState' = "gameover"
           THEN /\ issued' = issued + 1
                /\ sent = {[id |-> issued + 1, kind |-> "feedback",
                            data |-> <<[score |-> score,
                                        highScore |-> highScore,
                                        length |-> Len(snake)]>>]}
           ELSE /\ \A r \in sent : r.kind # "feedback"
                /\ issued' # issued => (\E r \in sent : r.kind = "tip")]_vars

\* C15 witness: the request of a game that raised the high score from 0 to
\* 10 is on its way
FeedbackRequestPending ==
    /\ gameState = "gameover"
    /\ highScore = 10
    /\ \E r \in inFlight :
          /\ r.kind = "feedback"
          /\ r.data = <<[score |-> 10, highScore |-> 0, length |-> 2]>>

\* C16: a colliding tick ends the game in that step whatever has become of
\* the requests sent before, and no step of the AI client (a tip asked for,
\* a response, a failure) changes the game state, the snake, the food, the
\* score, the speed, the directions or the high score.
AiNeverGatesGame ==
    /\ [][(Tick /\ (~InGrid(TickHead) \/ OnSnake(snake, TickHead))) =>
             gameState' = "gameover"]_vars
    /\ [][\/ UNCHANGED <<gameState, snake, food, score, speed, direction,
                         nextDirection, highScore>>
          \/ ~AiEvent]_vars

\* C16 witness: a game has ended while the request of the game before it
\* was still on its way
EndedWhilePending ==
    /\ gameState = "gameover"
    /\ \E r1, r2 \in inFlight :
          r1.id # r2.id /\ r1.kind = "feedback" /\ r2.kind = "feedback"

\* the body has a content that is not empty
HasContent(reply) ==
    reply.outcome = "json" /\ reply.content # <<>> /\ reply.content[1] # ""

HasFallback(reply) ==
    reply.outcome = "json" /\ reply.fallback # <<>> /\ reply.fallback[1] # ""

\* C17: whatever a tip or feedback request comes back with (content, empty
\* content, an error body with or without fallback, a rejected fetch, a body
\* that does not parse), the tip or feedback string is then not empty: it is
\* the content when there is one, else the fallback of the body or a string
\* of the client; and the loading flag is then FALSE.
EveryOutcomeGivesText ==
    [][\A r \in inFlight, reply \in Replies :
         /\ TipResponse(r, reply) =>
               /\ aiTip' # ""
               /\ HasContent(reply) => aiTip' = reply.content[1]
               /\ (~HasContent(reply) /\ HasFallback(reply)) =>
                      aiTip' = reply.fallback[1]
               /\ ~HasContent(reply) => aiTip' # AiText
               /\ isLoadingAi' = FALSE
         /\ FeedbackResponse(r, reply) =>
               /\ aiFeedback' # ""
               /\ HasContent(reply) => aiFeedback' = reply.content[1]
               /\ (~HasContent(reply) /\ HasFallback(reply)) =>
                      aiFeedback' = reply.fallback[1]
               /\ ~HasContent(reply) => aiFeedback' # AiText
               /\ isLoadingAi' = FALSE]_vars

\* C17 witness: a tip came back with empty content and a feedback request
\* came back with a body that did not parse
FallbacksShown ==
    /\ aiTip = "Keep practicing and you'll improve!"
    /\ aiFeedback = "Nice try! Keep playing to beat your high score!"
    /\ ~isLoadingAi

\* C18: a start leaves the requests that are on their way where they are
\* (and empties the feedback string), and a feedback response is applied in
\* whatever state it arrives, so that the feedback of an earlier game can be
\* shown during and after a later one.
LateFeedbackApplied ==
    /\ [][(gameState \in {"menu", "gameover"} /\ gameState' = "playing") =>
             (inFlight' = inFlight /\ aiFeedback' = "")]_vars
    /\ [][\A r \in inFlight, reply \in Replies :
             FeedbackResponse(r, reply) =>
                 /\ aiFeedback' # ""
                 /\ feedbackFrom' = r.id
                 /\ gameState' = gameState]_vars
    /\ [](feedbackFrom # 0 => aiFeedback # "")

\* C18 witness: the second game is over, its own request is still on its
\* way, and the feedback shown is the answer to the first game's request
EarlierFeedbackShown ==
    /\ gameState = "gameover"
    /\ aiFeedback # ""
    /\ feedbackFrom = 1
    /\ \E r \in inFlight : r.id = 2 /\ r.kind = "feedback"

\* C20: a request whose type is none of the recognised kinds is answered
\* with status 400, no content and no success flag, whatever else happens
\* while it is handled (the AI client failing to be created included); a
\* failure while a recognised request is handled is answered with success
\* FALSE and one of the fixed fallback strings.
UnknownTypeGets400 ==
    (apiRequest # <<>> /\ apiResponse # <<>>
       /\ apiRequest[1].body.parsed = "object") =>
      LET req == apiRequest[1]
          response == apiResponse[1]
          recognised == req.body.type # <<>>
                          /\ req.body.type[1] \in {"tip", "feedback", "theme"}
      IN  /\ ~recognised =>
                /\ response.status = 400
                /\ response.content = <<>>
                /\ response.success = <<>>
          /\ (recognised /\ response.status # 200) =>
                /\ response.success = <<FALSE>>
                /\ response.fallback # <<>>
                /\ response.fallback[1] \in FallbackTips

\* C22: the saved speed preference (localStorage.snake_speed) is changed by
\* the speed slider of the menu and by nothing else; a tick that eats lowers
\* the speed of the session and leaves the saved preference alone.
SavedSpeedOnlyFromMenu ==
    [][(savedSpeed' # savedSpeed) =>
          (gameState = "menu" /\ \E v \in SliderValues : ChangeSpeed(v))]_vars

\* C24: the score is 10 times (snake length - 1) in every state; the score
\* and the length of the snake change in the same steps only: both go up (by
\* 10 and by one segment) on a tick that eats, both go back (to 0 and to one
\* segment) on a start.
ScoreMatchesLength ==
    /\ [](score = 10 * (Len(snake) - 1) /\ score >= 0 /\ score % 10 = 0)
    /\ [][(score' # score) <=> (Len(snake') # Len(snake))]_vars
    /\ [][(score' # score) =>
             \/ score' = score + 10 /\ Len(snake') = Len(snake) + 1
                  /\ gameState = "playing"
             \/ score' = 0 /\ Len(snake') = 1 /\ gameState' = "playing"
                  /\ gameState \in {"menu", "gameover"}]_vars

\* C24 witness: a game is restarted after a game in which the snake ate:
\* score and snake are back at 0 and one segment
ScoreResetWithSnake ==
    /\ gameState = "playing"
    /\ eaten = 1
    /\ score = 0
    /\ Len(snake) = 1
    /\ highScore = 10

\* C25: the loading flag is TRUE whenever a tip or feedback request is on
\* its way, so that the Get AI Tip button (disabled by the flag) cannot send
\* a request while another one is outstanding.
LoadingWhilePending ==
    inFlight # {} => isLoadingAi

\* C23: while the state stays playing, a direction request that is accepted
\* changes nextDirection only and leaves the interval running as it was: the
\* time that has passed towards the pending tick is kept, so that requests
\* arriving faster than the period cannot hold the tick off.
RequestKeepsPendingTick ==
    [][(gameState = "playing" /\ gameState' = "playing"
          /\ nextDirection' # nextDirection) =>
          (elapsed' = elapsed /\ UNCHANGED timerVars)]_vars

\* C21: food placement returns a cell of the grid that no segment of the
\* snake lies on, and it does return whenever the snake leaves a cell of the
\* grid free; called by the tick that fills the grid it never returns: that
\* tick never completes (the snake, the score and the food stay as they were
\* before it) and the game stays playing.
FoodPlacementTerminates ==
    /\ [](foodReturned =>
            (InGrid(newFood[1]) /\ ~OnSnake(foodCall[1], newFood[1])))
    /\ ((foodCall # None /\ Len(foodCall[1]) < GRID_SIZE * GRID_SIZE)
           ~> foodReturned)
    /\ []((foodCall # None /\ Len(foodCall[1]) = GRID_SIZE * GRID_SIZE) =>
            /\ ~foodReturned
            /\ gameState = "playing"
            /\ Len(snake) = GRID_SIZE * GRID_SIZE - 1
            /\ score = 10 * (Len(snake) - 1)
            /\ food = foodCall[1][1])

\* C21 witness: the grown snake fills the grid and the loop has drawn (and
\* turned down) the cell of the eaten food
FullGridStillSampling ==
    /\ foodCall # None
    /\ Len(foodCall[1]) = GRID_SIZE * GRID_SIZE
    /\ newFood = Some(food)
    /\ ~foodReturned

====
